---- MODULE Spec2Model ----
(***************************************************************************)
(* State-machine model of contracts/BuildingBrillianceToken.sol:           *)
(*   - BuildingBrillianceToken: ERC20 with staking, reward pool, pause;    *)
(*   - ValueNFT: content-backed ERC721 with oracle valuation and a         *)
(*     built-in marketplace.                                               *)
(* Every external function is one action.  A handler is an operator from   *)
(* the contract state (a record) to a result [err, s]; a failed require    *)
(* gives err # "" and the EVM then discards every write of the call.       *)
(* The clock counts half days; token amounts and prices are in the         *)
(* smallest unit, with the supply constants scaled down.                   *)
(***************************************************************************)
EXTENDS Integers, Sequences, FiniteSets

VARIABLES
    now,                    \* block.timestamp
    ev,                     \* the last external call: [op, who, err]
    steps,                  \* number of calls and clock advances that took effect
    \* ---- BuildingBrillianceToken ----
    balances,               \* ERC20 _balances
    totalSupply,            \* ERC20 _totalSupply
    paused,                 \* Pausable _paused
    stakes,                 \* mapping(address => Stake)
    rewards,                \* mapping(address => uint256)
    totalStaked,
    rewardRate,
    rewardPool,
    lastRewardDistribution,
    \* ---- ValueNFT ----
    tokenIdCounter,         \* Counters.Counter _tokenIdCounter
    owners,                 \* ERC721 _owners
    valueData,              \* mapping(uint256 => ValueData)
    contentToToken,         \* mapping(string => uint256)
    creatorTokens,          \* mapping(address => uint256[])
    tokenListings,          \* mapping(uint256 => address)
    marketplaceFee,
    feeRecipient,
    status,                 \* ReentrancyGuard _status
    eth,                    \* native balances of the accounts and of ValueNFT
    frame                   \* the mintValueNFT call waiting in onERC721Received

tokenVars == <<balances, totalSupply, paused, stakes, rewards, totalStaked,
               rewardRate, rewardPool, lastRewardDistribution>>

nftVars == <<tokenIdCounter, owners, valueData, contentToToken, creatorTokens,
             tokenListings, marketplaceFee, feeRecipient, status, eth>>

vars == <<now, ev, steps, tokenVars, nftVars, frame>>

----------------------------------------------------------------------------
(* Addresses *)

Deployer == "deployer"          \* admin, minter and rewards manager
BBT      == "BBT"               \* address(this) of the token contract
Accounts == {Deployer, "alice"}
Holders  == Accounts \cup {BBT}

(* Time *)
DAY              == 2
SECONDS_PER_YEAR == 365 * DAY
MIN_LOCK         == 30 * DAY
MAX_LOCK         == 365 * DAY

(* Token economics *)
MAX_SUPPLY      == 1200
INITIAL_SUPPLY  == 1000
MAX_REWARD_RATE == 2000
BPS             == 10000

(* Bounds and the inputs the calls are tried with *)
MaxTime       == 800
MaxSteps      == 5
TickSteps     == {30 * DAY, 365 * DAY}
MintAmounts   == {200, 201}
StakeAmounts  == {0, 400}
UnstakeAmounts == {200, 400}
LockPeriods   == {29 * DAY, 30 * DAY, 365 * DAY, 366 * DAY}
FundAmounts   == {100}
SendAmounts   == {500}
RateInputs    == {100, 2000, 2001}

----------------------------------------------------------------------------
(* Results of a call *)

Ok(s)       == [err |-> "", s |-> s]
Revert(msg, s) == [err |-> msg, s |-> s]
Then(r, F(_)) == IF r.err # "" THEN r ELSE F(r.s)

Event(op, who, r) == [op |-> op, who |-> who, err |-> r.err]

----------------------------------------------------------------------------
(* BuildingBrillianceToken *)

TokenState ==
    [balances |-> balances, totalSupply |-> totalSupply, paused |-> paused,
     stakes |-> stakes, rewards |-> rewards, totalStaked |-> totalStaked,
     rewardRate |-> rewardRate, rewardPool |-> rewardPool,
     lastRewardDistribution |-> lastRewardDistribution]

\* constructor: roles as scripts/deploy.js grants them (one deployer)
hasRole(role, account) ==
    CASE role = "DEFAULT_ADMIN_ROLE" -> account = Deployer
      [] role = "MINTER_ROLE"        -> account = Deployer
      [] role = "PAUSER_ROLE"        -> account = Deployer
      [] role = "REWARDS_ROLE"       -> account = Deployer
      [] OTHER -> FALSE

onlyRole(role, sender, s, F(_)) ==
    IF hasRole(role, sender) THEN F(s) ELSE Revert("AccessControl: missing role", s)

\* A hook that does not look at the pause flag.
_beforeTokenTransfer_noPause(s) == Ok(s)

\* ERC20Pausable hook, reached from every _transfer and _mint
_beforeTokenTransfer(s) ==
    IF s.paused THEN Revert("ERC20Pausable: token transfer while paused", s) ELSE Ok(s)

_transfer(s, from, to, amount) ==
    Then(_beforeTokenTransfer(s), LAMBDA s1 :
        IF s1.balances[from] < amount
        THEN Revert("ERC20: transfer amount exceeds balance", s1)
        ELSE Ok([s1 EXCEPT !.balances =
                    [h \in Holders |->
                        s1.balances[h] - (IF h = from THEN amount ELSE 0)
                                       + (IF h = to THEN amount ELSE 0)]]))

_mint(s, to, amount) ==
    Then(_beforeTokenTransfer(s), LAMBDA s1 :
        Ok([s1 EXCEPT !.totalSupply = @ + amount, !.balances[to] = @ + amount]))

\* A mint without the cap.
mint_noCap(s, sender, to, amount) ==
    onlyRole("MINTER_ROLE", sender, s, LAMBDA s0 : _mint(s0, to, amount))

mint(s, sender, to, amount) ==
    onlyRole("MINTER_ROLE", sender, s, LAMBDA s0 :
        IF s0.totalSupply + amount > MAX_SUPPLY
        THEN Revert("Exceeds max supply", s0)
        ELSE _mint(s0, to, amount))

\* A pause that any account may call.
pause_anyCaller(s, sender) ==
    IF s.paused THEN Revert("Pausable: paused", s)
    ELSE Ok([s EXCEPT !.paused = TRUE])

pause(s, sender) ==
    onlyRole("PAUSER_ROLE", sender, s, LAMBDA s0 :
        IF s0.paused THEN Revert("Pausable: paused", s0)
        ELSE Ok([s0 EXCEPT !.paused = TRUE]))

unpause(s, sender) ==
    onlyRole("PAUSER_ROLE", sender, s, LAMBDA s0 :
        IF ~s0.paused THEN Revert("Pausable: not paused", s0)
        ELSE Ok([s0 EXCEPT !.paused = FALSE]))

\* An accrual over a year of 360 days.
AccruedReward_year360(s, user, t) ==
    (s.stakes[user].amount * s.rewardRate * (t - s.stakes[user].timestamp))
        \div (360 * DAY * BPS)

\* An accrual that rounds up instead of down.
AccruedReward_roundUp(s, user, t) ==
    (s.stakes[user].amount * s.rewardRate * (t - s.stakes[user].timestamp)
        + SECONDS_PER_YEAR * BPS - 1) \div (SECONDS_PER_YEAR * BPS)

AccruedReward(s, user, t) ==
    (s.stakes[user].amount * s.rewardRate * (t - s.stakes[user].timestamp))
        \div (SECONDS_PER_YEAR * BPS)

\* A settlement that replaces the settled reward by the new accrual.
_updateRewards_overwrite(s, user, t) ==
    IF s.stakes[user].amount > 0
    THEN [s EXCEPT !.rewards[user] = AccruedReward(s, user, t),
                   !.stakes[user].timestamp = t]
    ELSE s

_updateRewards(s, user, t) ==
    IF s.stakes[user].amount > 0
    THEN [s EXCEPT !.rewards[user] = @ + AccruedReward(s, user, t),
                   !.stakes[user].timestamp = t]
    ELSE s

\* A payout that hands over what the pool still holds instead of failing.
_claimRewards_partial(s, sender) ==
    LET reward == s.rewards[sender]
        paid   == IF s.rewardPool < reward THEN s.rewardPool ELSE reward IN
    IF reward > 0
    THEN _transfer([s EXCEPT !.rewards[sender] = 0, !.rewardPool = @ - paid],
                   BBT, sender, paid)
    ELSE Ok(s)

_claimRewards(s, sender) ==
    LET reward == s.rewards[sender] IN
    IF reward > 0
    THEN LET s1 == [s EXCEPT !.rewards[sender] = 0] IN
         IF s1.rewardPool < reward
         THEN Revert("Insufficient reward pool", s1)
         ELSE _transfer([s1 EXCEPT !.rewardPool = @ - reward], BBT, sender, reward)
    ELSE Ok(s)

\* A stake that does not settle the accrual of the previous amount.
stake_noSettle(s, sender, amount, lockPeriod, t) ==
    IF amount <= 0 THEN Revert("Amount must be greater than 0", s)
    ELSE IF lockPeriod < MIN_LOCK THEN Revert("Minimum lock period is 30 days", s)
    ELSE IF lockPeriod > MAX_LOCK THEN Revert("Maximum lock period is 365 days", s)
    ELSE IF s.balances[sender] < amount THEN Revert("Insufficient balance", s)
    ELSE Then(_transfer(s, sender, BBT, amount), LAMBDA s1 :
            Ok([s1 EXCEPT !.stakes[sender].amount = @ + amount,
                          !.stakes[sender].timestamp = t,
                          !.stakes[sender].lockPeriod = lockPeriod,
                          !.totalStaked = @ + amount]))

\* A stake whose lock period has to exceed the minimum.
stake_minExclusive(s, sender, amount, lockPeriod, t) ==
    IF amount <= 0 THEN Revert("Amount must be greater than 0", s)
    ELSE IF lockPeriod <= MIN_LOCK THEN Revert("Minimum lock period is 30 days", s)
    ELSE IF lockPeriod > MAX_LOCK THEN Revert("Maximum lock period is 365 days", s)
    ELSE IF s.balances[sender] < amount THEN Revert("Insufficient balance", s)
    ELSE Then(_transfer(_updateRewards(s, sender, t), sender, BBT, amount), LAMBDA s1 :
            Ok([s1 EXCEPT !.stakes[sender].amount = @ + amount,
                          !.stakes[sender].timestamp = t,
                          !.stakes[sender].lockPeriod = lockPeriod,
                          !.totalStaked = @ + amount]))

stake(s, sender, amount, lockPeriod, t) ==
    IF amount <= 0 THEN Revert("Amount must be greater than 0", s)
    ELSE IF lockPeriod < MIN_LOCK THEN Revert("Minimum lock period is 30 days", s)
    ELSE IF lockPeriod > MAX_LOCK THEN Revert("Maximum lock period is 365 days", s)
    ELSE IF s.balances[sender] < amount THEN Revert("Insufficient balance", s)
    ELSE Then(_transfer(_updateRewards(s, sender, t), sender, BBT, amount), LAMBDA s1 :
            Ok([s1 EXCEPT !.stakes[sender].amount = @ + amount,
                          !.stakes[sender].timestamp = t,
                          !.stakes[sender].lockPeriod = lockPeriod,
                          !.totalStaked = @ + amount]))

\* An unstake that does not look at the lock.
unstake_ignoresLock(s, sender, amount, t) ==
    IF s.stakes[sender].amount < amount THEN Revert("Insufficient staked amount", s)
    ELSE Then(_claimRewards(_updateRewards(s, sender, t), sender), LAMBDA s1 :
            _transfer([s1 EXCEPT !.stakes[sender].amount = @ - amount,
                                 !.totalStaked = @ - amount],
                      BBT, sender, amount))

\* An unstake that forgets the ledger-wide counter.
unstake_keepsTotal(s, sender, amount, t) ==
    IF s.stakes[sender].amount < amount THEN Revert("Insufficient staked amount", s)
    ELSE IF t < s.stakes[sender].timestamp + s.stakes[sender].lockPeriod
         THEN Revert("Lock period not expired", s)
    ELSE Then(_claimRewards(_updateRewards(s, sender, t), sender), LAMBDA s1 :
            _transfer([s1 EXCEPT !.stakes[sender].amount = @ - amount],
                      BBT, sender, amount))

unstake(s, sender, amount, t) ==
    IF s.stakes[sender].amount < amount THEN Revert("Insufficient staked amount", s)
    ELSE IF t < s.stakes[sender].timestamp + s.stakes[sender].lockPeriod
         THEN Revert("Lock period not expired", s)
    ELSE Then(_claimRewards(_updateRewards(s, sender, t), sender), LAMBDA s1 :
            _transfer([s1 EXCEPT !.stakes[sender].amount = @ - amount,
                                 !.totalStaked = @ - amount],
                      BBT, sender, amount))

claimRewards(s, sender, t) ==
    _claimRewards(_updateRewards(s, sender, t), sender)

\* A funding that credits the pool without taking the tokens.
distributeRewards_noTransfer(s, sender, amount, t) ==
    onlyRole("REWARDS_ROLE", sender, s, LAMBDA s0 :
        IF s0.balances[sender] < amount THEN Revert("Insufficient balance", s0)
        ELSE Ok([s0 EXCEPT !.rewardPool = @ + amount,
                           !.lastRewardDistribution = t]))

distributeRewards(s, sender, amount, t) ==
    onlyRole("REWARDS_ROLE", sender, s, LAMBDA s0 :
        IF s0.balances[sender] < amount THEN Revert("Insufficient balance", s0)
        ELSE Then(_transfer(s0, sender, BBT, amount), LAMBDA s1 :
                Ok([s1 EXCEPT !.rewardPool = @ + amount,
                              !.lastRewardDistribution = t])))

\* A rate change without the cap.
updateRewardRate_noCap(s, sender, newRate) ==
    onlyRole("DEFAULT_ADMIN_ROLE", sender, s, LAMBDA s0 :
        Ok([s0 EXCEPT !.rewardRate = newRate]))

updateRewardRate(s, sender, newRate) ==
    onlyRole("DEFAULT_ADMIN_ROLE", sender, s, LAMBDA s0 :
        IF newRate > MAX_REWARD_RATE THEN Revert("Reward rate cannot exceed 20%", s0)
        ELSE Ok([s0 EXCEPT !.rewardRate = newRate]))

\* An emergency withdrawal that moves the tokens past the pause.
emergencyWithdraw_pastPause(s, sender) ==
    onlyRole("DEFAULT_ADMIN_ROLE", sender, s, LAMBDA s0 :
        IF ~s0.paused THEN Revert("Pausable: not paused", s0)
        ELSE Ok([s0 EXCEPT !.balances[sender] = @ + s0.balances[BBT],
                           !.balances[BBT] = 0]))

emergencyWithdraw(s, sender) ==
    onlyRole("DEFAULT_ADMIN_ROLE", sender, s, LAMBDA s0 :
        IF ~s0.paused THEN Revert("Pausable: not paused", s0)
        ELSE IF s0.balances[BBT] > 0
             THEN _transfer(s0, BBT, sender, s0.balances[BBT])
             ELSE Ok(s0))

\* ERC20.transfer, the inherited public entry point
transfer(s, sender, to, amount) == _transfer(s, sender, to, amount)

(* Views *)
\* A projection that leaves out the settled reward.
pendingRewards_accrualOnly(user) ==
    IF stakes[user].amount = 0 THEN rewards[user]
    ELSE AccruedReward(TokenState, user, now)

pendingRewards(user) ==
    IF stakes[user].amount = 0 THEN rewards[user]
    ELSE rewards[user] + AccruedReward(TokenState, user, now)

\* A rate query without the bonus for the lock period.
getStakingAPR_flat(lockPeriod) == rewardRate

getStakingAPR(lockPeriod) ==
    IF lockPeriod >= 365 * DAY THEN rewardRate + 500
    ELSE IF lockPeriod >= 180 * DAY THEN rewardRate + 300
    ELSE IF lockPeriod >= 90 * DAY THEN rewardRate + 100
    ELSE rewardRate

unlockTime(user) == stakes[user].timestamp + stakes[user].lockPeriod
canUnstake(user) == now >= unlockTime(user)

----------------------------------------------------------------------------
(* Actions of the token ledger *)

CommitTokenResult(op, who, r) ==
    /\ r.err = "" => steps < MaxSteps
    /\ steps' = IF r.err = "" THEN steps + 1 ELSE steps
    /\ ev' = Event(op, who, r)
    /\ IF r.err = ""
       THEN /\ balances' = r.s.balances
            /\ totalSupply' = r.s.totalSupply
            /\ paused' = r.s.paused
            /\ stakes' = r.s.stakes
            /\ rewards' = r.s.rewards
            /\ totalStaked' = r.s.totalStaked
            /\ rewardRate' = r.s.rewardRate
            /\ rewardPool' = r.s.rewardPool
            /\ lastRewardDistribution' = r.s.lastRewardDistribution
       ELSE UNCHANGED tokenVars
    /\ UNCHANGED <<now, nftVars, frame>>

\* The EVM commits the writes of a call that returned and drops those of one
\* that reverted.  A reverted call leaves nothing behind but its record in ev,
\* so a sequence of calls has the effect of the same sequence without its
\* reverted calls: the calls that follow a reverted call are explored from
\* the state before it (ev.err = "").
CommitToken(op, who, r) ==
    /\ ev.err = ""
    /\ \E res \in {r} : CommitTokenResult(op, who, res)

Mint(a, to, amount)  == CommitToken("mint", a, mint(TokenState, a, to, amount))
Pause(a)             == CommitToken("pause", a, pause(TokenState, a))
Unpause(a)           == CommitToken("unpause", a, unpause(TokenState, a))
Stake(a, amount, lock) == CommitToken("stake", a, stake(TokenState, a, amount, lock, now))
Unstake(a, amount)   == CommitToken("unstake", a, unstake(TokenState, a, amount, now))
ClaimRewards(a)      == CommitToken("claimRewards", a, claimRewards(TokenState, a, now))
DistributeRewards(a, amount) ==
    CommitToken("distributeRewards", a, distributeRewards(TokenState, a, amount, now))
UpdateRewardRate(a, rate) ==
    CommitToken("updateRewardRate", a, updateRewardRate(TokenState, a, rate))
EmergencyWithdraw(a) == CommitToken("emergencyWithdraw", a, emergencyWithdraw(TokenState, a))
Transfer(a, to, amount) == CommitToken("transfer", a, transfer(TokenState, a, to, amount))

Tick(d) ==
    /\ ev.err = ""
    /\ now + d <= MaxTime
    /\ steps < MaxSteps
    /\ steps' = steps + 1
    /\ now' = now + d
    /\ ev' = [op |-> "tick", who |-> "none", err |-> ""]
    /\ UNCHANGED <<tokenVars, nftVars, frame>>

InitToken ==
    /\ balances = [h \in Holders |-> IF h = Deployer THEN INITIAL_SUPPLY ELSE 0]
    /\ totalSupply = INITIAL_SUPPLY
    /\ paused = FALSE
    /\ stakes = [a \in Accounts |-> [amount |-> 0, timestamp |-> 0, rewardDebt |-> 0, lockPeriod |-> 0]]
    /\ rewards = [a \in Accounts |-> 0]
    /\ totalStaked = 0
    /\ rewardRate = 100
    /\ rewardPool = 0
    /\ lastRewardDistribution = 0

----------------------------------------------------------------------------
(* uint256 arithmetic.  The products and powers of _calculateValue exceed  *)
(* the integers of the checker, so a uint256 is held as the sequence of    *)
(* its base-10000 digits, least significant first, without leading zeros.  *)

BigBase == 10000

RECURSIVE BigFromInt(_)
BigFromInt(n) ==
    IF n = 0 THEN <<>> ELSE <<n % BigBase>> \o BigFromInt(n \div BigBase)

RECURSIVE BigToInt(_)
BigToInt(b) ==
    IF b = <<>> THEN 0 ELSE Head(b) + BigBase * BigToInt(Tail(b))

RECURSIVE BigTrim(_)
BigTrim(b) ==
    IF b # <<>> /\ b[Len(b)] = 0 THEN BigTrim(SubSeq(b, 1, Len(b) - 1)) ELSE b

RECURSIVE BigMulDigit(_, _, _)
BigMulDigit(b, m, carry) ==
    IF b = <<>> THEN BigFromInt(carry)
    ELSE LET x == Head(b) * m + carry
         IN  <<x % BigBase>> \o BigMulDigit(Tail(b), m, x \div BigBase)

RECURSIVE BigAdd(_, _, _)
BigAdd(a, b, carry) ==
    IF a = <<>> /\ b = <<>> THEN BigFromInt(carry)
    ELSE LET x == (IF a = <<>> THEN 0 ELSE Head(a))
                  + (IF b = <<>> THEN 0 ELSE Head(b)) + carry
         IN  <<x % BigBase>> \o BigAdd(IF a = <<>> THEN <<>> ELSE Tail(a),
                                       IF b = <<>> THEN <<>> ELSE Tail(b),
                                       x \div BigBase)

RECURSIVE BigMul(_, _)
BigMul(a, b) ==
    IF b = <<>> THEN <<>>
    ELSE BigTrim(BigAdd(BigMulDigit(a, Head(b), 0), <<0>> \o BigMul(a, Tail(b)), 0))

RECURSIVE BigLess(_, _)
BigLess(a, b) ==
    IF Len(a) # Len(b) THEN Len(a) < Len(b)
    ELSE IF a = <<>> THEN FALSE
    ELSE IF a[Len(a)] # b[Len(b)] THEN a[Len(a)] < b[Len(b)]
    ELSE BigLess(SubSeq(a, 1, Len(a) - 1), SubSeq(b, 1, Len(b) - 1))

\* b ** n by repeated multiplication; each product is taken before the next
RECURSIVE BigPowFrom(_, _, _)
BigPowFrom(acc, b, n) ==
    IF n = 0 THEN acc
    ELSE LET next == BigMul(acc, BigFromInt(b))
         IN  IF Len(next) = 0 THEN <<>> ELSE BigPowFrom(next, b, n - 1)

BigPow(b, n) == BigPowFrom(<<1>>, b, n)

\* a / 10000 ** k: in base 10000 the quotient drops the k lowest digits
BigDivPow10000(a, k) == IF Len(a) <= k THEN <<>> ELSE SubSeq(a, k + 1, Len(a))

\* 2 ** 256, the first value a uint256 cannot hold
UINT256_LIMIT == BigPow(65536, 16)

\* checked arithmetic of Solidity 0.8: a result outside uint256 aborts the call
Overflows(b) == ~BigLess(b, UINT256_LIMIT)

----------------------------------------------------------------------------
(* ValueNFT *)

ZERO  == "0x0"                  \* address(0)
NFT   == "ValueNFT"             \* address(this) of the asset contract
Vault == "vault"                \* a contract account implementing IERC721Receiver
Users      == Accounts \cup {Vault}
Contracts  == {Vault}
Payees     == Users \cup {NFT}
ContentIds == {"c1", "c2"}
Recipients == {"alice", Vault}  \* the accounts assets are minted and sent to

BASE_VALUE       == 10     \* 1 ether; values are counted in tenths of an ether
MAX_MULTIPLIER   == 10000
VALUE_DECAY_RATE == 9950
MAX_FEE          == 1000
NOT_ENTERED      == 1
ENTERED          == 2

MaxTokens     == 2
MaxStepsNFT   == 4
MaxTimeNFT    == 40
TokenIds      == 0 .. (MaxTokens - 1)
TickStepsNFT  == {19 * DAY, 20 * DAY}
InitialValues == {0, 30}
Prices        == {0, 399}
Payments      == {399, 400}
FeeInputs     == {1000, 1001}
StartingEther == 400
MetricInputs  ==
    { [impact |-> 10000,    engagement |-> 10000,    quality |-> 10000,    views |-> 7, actions |-> 3],
      [impact |-> 20000000, engagement |-> 20000000, quality |-> 20000000, views |-> 7, actions |-> 0] }

NoFrame == [open |-> FALSE]

ZeroData ==
    [contentId |-> "", creator |-> ZERO, initialValue |-> 0, currentValue |-> 0,
     impactScore |-> 0, engagementScore |-> 0, qualityScore |-> 0,
     viewCount |-> 0, actionCount |-> 0, mintTimestamp |-> 0, lastValueUpdate |-> 0,
     isListed |-> FALSE, listPrice |-> 0]

NftState ==
    [tokenIdCounter |-> tokenIdCounter, owners |-> owners, valueData |-> valueData,
     contentToToken |-> contentToToken, creatorTokens |-> creatorTokens,
     tokenListings |-> tokenListings, marketplaceFee |-> marketplaceFee,
     feeRecipient |-> feeRecipient, status |-> status, eth |-> eth]

\* constructor: scripts/deploy.js passes the deployer for every role
hasRoleNFT(role, account) ==
    CASE role = "DEFAULT_ADMIN_ROLE" -> account = Deployer
      [] role = "MINTER_ROLE"        -> account = Deployer
      [] role = "ORACLE_ROLE"        -> account = Deployer
      [] role = "MARKETPLACE_ROLE"   -> account = Deployer
      [] OTHER -> FALSE

onlyRoleNFT(role, sender, s, F(_)) ==
    IF hasRoleNFT(role, sender) THEN F(s) ELSE Revert("AccessControl: missing role", s)

_exists(s, tokenId) == tokenId \in DOMAIN s.owners /\ s.owners[tokenId] # ZERO

\* VALUE_DECAY_RATE ** n and 10000 ** n of line 440, for every number of
\* days the clock can reach
DecayPowers ==
    [n \in 0 .. (MaxTimeNFT \div DAY) |->
        [num |-> BigPow(VALUE_DECAY_RATE, n), den |-> BigPow(10000, n)]]

\* A multiplier that sets in at once and wears off after a day.
decayMultiplier_late(decayPeriods) ==
    IF decayPeriods = 0 THEN <<>> ELSE <<1>>

\* line 440: VALUE_DECAY_RATE ** decayPeriods / (10000 ** decayPeriods), an
\* integer division
decayMultiplier(decayPeriods) ==
    BigDivPow10000(DecayPowers[decayPeriods].num, decayPeriods)

\* lines 443-449: the multiplier _calculateValue takes from the action count
actionMultiplier(actionCount) ==
    IF actionCount > 0
    THEN (IF 10000 + actionCount * 100 > MAX_MULTIPLIER
          THEN MAX_MULTIPLIER ELSE 10000 + actionCount * 100)
    ELSE 10000

\* The value and whether computing it aborts: [err, value]
_calculateValue_noFloor(data, t) ==
    LET compositeScore == (data.impactScore * 40 + data.engagementScore * 35
                           + data.qualityScore * 25) \div 100
        decayPeriods == (t - data.lastValueUpdate) \div DAY
        num == DecayPowers[decayPeriods].num
        den == DecayPowers[decayPeriods].den
        product == BigMul(BigMul(BigMul(BigFromInt(data.initialValue),
                                        BigFromInt(compositeScore)),
                                 BigFromInt(actionMultiplier(data.actionCount))),
                          decayMultiplier(decayPeriods))
    IN  IF Overflows(num) \/ Overflows(den) \/ Overflows(product)
        THEN [err |-> "Panic(0x11)", value |-> 0]
        ELSE [err |-> "", value |-> BigToInt(BigDivPow10000(product, 3))]

_calculateValue(data, t) ==
    LET compositeScore == (data.impactScore * 40 + data.engagementScore * 35
                           + data.qualityScore * 25) \div 100
        decayPeriods == (t - data.lastValueUpdate) \div DAY
        num == DecayPowers[decayPeriods].num
        den == DecayPowers[decayPeriods].den
        product == BigMul(BigMul(BigMul(BigFromInt(data.initialValue),
                                        BigFromInt(compositeScore)),
                                 BigFromInt(actionMultiplier(data.actionCount))),
                          decayMultiplier(decayPeriods))
        newValue == BigToInt(BigDivPow10000(product, 3))
    IN  IF Overflows(num) \/ Overflows(den) \/ Overflows(product)
        THEN [err |-> "Panic(0x11)", value |-> 0]
        ELSE [err |-> "",
              value |-> IF newValue < data.initialValue \div 10
                        THEN data.initialValue \div 10 ELSE newValue]

\* The view getCurrentValue, of a given storage and time and of the present
\* ones: [err, value]
queryCurrentValue(own, data, t, tokenId) ==
    IF ~(tokenId \in TokenIds /\ own[tokenId] # ZERO)
    THEN [err |-> "Token does not exist", value |-> 0]
    ELSE _calculateValue(data[tokenId], t)

getCurrentValue(tokenId) == queryCurrentValue(owners, valueData, now, tokenId)

\* lines 359-361: the modifier and the two requires; "" when they pass
\* lines 545-574: the token ids getListedNFTs(0, limit) returns when limit
\* is at least the number of tokens
getListedNFTs(s) ==
    {i \in TokenIds : i < s.tokenIdCounter /\ _exists(s, i) /\ s.valueData[i].isListed}

\* lines 555-565: the loop of getListedNFTs from token id i on, with the
\* listed tokens skipped and the ids and prices collected so far
RECURSIVE getListedNFTs_loop(_, _, _, _, _, _, _)
getListedNFTs_loop(s, i, offset, limit, skipped, ids, prices) ==
    IF ~(i < s.tokenIdCounter /\ Len(ids) < limit)
    THEN [tokenIds |-> ids, prices |-> prices]
    ELSE IF _exists(s, i) /\ s.valueData[i].isListed
    THEN IF skipped >= offset
         THEN getListedNFTs_loop(s, i + 1, offset, limit, skipped,
                                 Append(ids, i), Append(prices, s.valueData[i].listPrice))
         ELSE getListedNFTs_loop(s, i + 1, offset, limit, skipped + 1, ids, prices)
    ELSE getListedNFTs_loop(s, i + 1, offset, limit, skipped, ids, prices)

\* A page that starts one listed token late.
getListedNFTsPage_late(s, offset, limit) ==
    getListedNFTs_loop(s, 0, offset + 1, limit, 0, <<>>, <<>>)

\* lines 545-575: getListedNFTs(offset, limit): [tokenIds, prices]
getListedNFTsPage(s, offset, limit) ==
    getListedNFTs_loop(s, 0, offset, limit, 0, <<>>, <<>>)

mintValueNFT_requires(s, sender, contentId, initialValue) ==
    IF ~hasRoleNFT("MINTER_ROLE", sender) THEN "AccessControl: missing role"
    ELSE IF s.contentToToken[contentId] # 0 THEN "Content already tokenized"
    ELSE IF initialValue < BASE_VALUE \div 10 THEN "Initial value too low"
    ELSE ""

\* lines 359-366: the checks, the counter and ERC721 _mint; _safeMint then
\* calls onERC721Received when `to` is a contract
mintValueNFT_begin(s, sender, to, contentId, initialValue) ==
    LET e == mintValueNFT_requires(s, sender, contentId, initialValue) IN
    IF e # "" THEN Revert(e, s)
    ELSE LET tokenId == s.tokenIdCounter IN
         Ok([s EXCEPT !.tokenIdCounter = @ + 1, !.owners[tokenId] = to])

\* lines 367-390: what mintValueNFT does once _safeMint has returned
mintValueNFT_end(s, tokenId, to, contentId, initialValue, t) ==
    IF ~_exists(s, tokenId) THEN Revert("ERC721URIStorage: URI set of nonexistent token", s)
    ELSE Ok([s EXCEPT
            !.valueData[tokenId] =
                [contentId |-> contentId, creator |-> to,
                 initialValue |-> initialValue, currentValue |-> initialValue,
                 impactScore |-> 5000, engagementScore |-> 5000, qualityScore |-> 7500,
                 viewCount |-> 0, actionCount |-> 0,
                 mintTimestamp |-> t, lastValueUpdate |-> t,
                 isListed |-> FALSE, listPrice |-> 0],
            !.contentToToken[contentId] = tokenId,
            !.creatorTokens[to] = Append(@, tokenId)])

updateValue(s, sender, tokenId, m, t) ==
    onlyRoleNFT("ORACLE_ROLE", sender, s, LAMBDA s0 :
        IF ~_exists(s0, tokenId) THEN Revert("Token does not exist", s0)
        ELSE LET s1 == [s0 EXCEPT !.valueData[tokenId].impactScore = m.impact,
                                  !.valueData[tokenId].engagementScore = m.engagement,
                                  !.valueData[tokenId].qualityScore = m.quality,
                                  !.valueData[tokenId].viewCount = m.views,
                                  !.valueData[tokenId].actionCount = m.actions]
                 c  == _calculateValue(s1.valueData[tokenId], t)
             IN  IF c.err # "" THEN Revert(c.err, s1)
                 ELSE Ok([s1 EXCEPT !.valueData[tokenId].currentValue = c.value,
                                    !.valueData[tokenId].lastValueUpdate = t]))

\* A listing that any account may make.
listNFT_anyCaller(s, sender, tokenId, price) ==
    IF ~_exists(s, tokenId) THEN Revert("ERC721: invalid token ID", s)
    ELSE IF price <= 0 THEN Revert("Price must be greater than 0", s)
    ELSE IF s.valueData[tokenId].isListed THEN Revert("Already listed", s)
    ELSE Ok([s EXCEPT !.valueData[tokenId].isListed = TRUE,
                      !.valueData[tokenId].listPrice = price,
                      !.tokenListings[tokenId] = sender])

listNFT(s, sender, tokenId, price) ==
    IF ~_exists(s, tokenId) THEN Revert("ERC721: invalid token ID", s)
    ELSE IF s.owners[tokenId] # sender THEN Revert("Not token owner", s)
    ELSE IF price <= 0 THEN Revert("Price must be greater than 0", s)
    ELSE IF s.valueData[tokenId].isListed THEN Revert("Already listed", s)
    ELSE Ok([s EXCEPT !.valueData[tokenId].isListed = TRUE,
                      !.valueData[tokenId].listPrice = price,
                      !.tokenListings[tokenId] = sender])

unlistNFT(s, sender, tokenId) ==
    IF ~_exists(s, tokenId) THEN Revert("ERC721: invalid token ID", s)
    ELSE IF s.owners[tokenId] # sender THEN Revert("Not token owner", s)
    ELSE IF ~s.valueData[tokenId].isListed THEN Revert("Not listed", s)
    ELSE Ok([s EXCEPT !.valueData[tokenId].isListed = FALSE,
                      !.valueData[tokenId].listPrice = 0,
                      !.tokenListings[tokenId] = ZERO])

\* payable(to).transfer(amount): 2300 gas reach the payee, which suffices for
\* no storage write and no call; a contract payee may refuse the payment
payTransfer(s, to, amount, accepts) ==
    IF to \in Contracts /\ ~accepts THEN Revert("payment refused", s)
    ELSE IF s.eth[NFT] < amount THEN Revert("insufficient balance for transfer", s)
    ELSE Ok([s EXCEPT !.eth = [h \in Payees |->
                s.eth[h] - (IF h = NFT THEN amount ELSE 0)
                         + (IF h = to THEN amount ELSE 0)]])

\* A marketplace that takes its fee in tenths of a percent.
buyNFT_feePerMille(s, sender, tokenId, value, accepts) ==
    IF s.status = ENTERED THEN Revert("ReentrancyGuard: reentrant call", s)
    ELSE IF ~s.valueData[tokenId].isListed THEN Revert("NFT not listed", s)
    ELSE IF value # s.valueData[tokenId].listPrice THEN Revert("Incorrect payment amount", s)
    ELSE IF ~_exists(s, tokenId) THEN Revert("ERC721: invalid token ID", s)
    ELSE LET seller == s.owners[tokenId]
             price  == value
             fee    == (price * s.marketplaceFee) \div 1000
             sellerAmount == price - fee
             s1 == [s EXCEPT !.eth[sender] = @ - value, !.eth[NFT] = @ + value]
             s2 == [s1 EXCEPT !.valueData[tokenId].isListed = FALSE,
                              !.valueData[tokenId].listPrice = 0,
                              !.tokenListings[tokenId] = ZERO,
                              !.owners[tokenId] = sender]
         IN  IF sellerAmount < 0 THEN Revert("Panic(0x11)", s)
             ELSE Then(payTransfer(s2, seller, sellerAmount, accepts), LAMBDA s3 :
                       payTransfer(s3, s3.feeRecipient, fee, accepts))

\* A marketplace that does not compare the payment with the list price.
buyNFT_anyPayment(s, sender, tokenId, value, accepts) ==
    IF s.status = ENTERED THEN Revert("ReentrancyGuard: reentrant call", s)
    ELSE IF ~s.valueData[tokenId].isListed THEN Revert("NFT not listed", s)
    ELSE IF ~_exists(s, tokenId) THEN Revert("ERC721: invalid token ID", s)
    ELSE LET seller == s.owners[tokenId]
             price  == value
             fee    == (price * s.marketplaceFee) \div 10000
             sellerAmount == price - fee
             s1 == [s EXCEPT !.eth[sender] = @ - value, !.eth[NFT] = @ + value]
             s2 == [s1 EXCEPT !.valueData[tokenId].isListed = FALSE,
                              !.valueData[tokenId].listPrice = 0,
                              !.tokenListings[tokenId] = ZERO,
                              !.owners[tokenId] = sender]
         IN  Then(payTransfer(s2, seller, sellerAmount, accepts), LAMBDA s3 :
                  payTransfer(s3, s3.feeRecipient, fee, accepts))

buyNFT(s, sender, tokenId, value, accepts) ==
    IF s.status = ENTERED THEN Revert("ReentrancyGuard: reentrant call", s)
    ELSE IF ~s.valueData[tokenId].isListed THEN Revert("NFT not listed", s)
    ELSE IF value # s.valueData[tokenId].listPrice THEN Revert("Incorrect payment amount", s)
    ELSE IF ~_exists(s, tokenId) THEN Revert("ERC721: invalid token ID", s)
    ELSE LET seller == s.owners[tokenId]
             price  == value
             fee    == (price * s.marketplaceFee) \div 10000
             sellerAmount == price - fee
             s1 == [s EXCEPT !.eth[sender] = @ - value, !.eth[NFT] = @ + value]
             s2 == [s1 EXCEPT !.valueData[tokenId].isListed = FALSE,
                              !.valueData[tokenId].listPrice = 0,
                              !.tokenListings[tokenId] = ZERO,
                              !.owners[tokenId] = sender]
         IN  Then(payTransfer(s2, seller, sellerAmount, accepts), LAMBDA s3 :
                  payTransfer(s3, s3.feeRecipient, fee, accepts))

\* A fee change without the cap.
updateMarketplaceFee_noCap(s, sender, newFee) ==
    onlyRoleNFT("DEFAULT_ADMIN_ROLE", sender, s, LAMBDA s0 :
        Ok([s0 EXCEPT !.marketplaceFee = newFee]))

updateMarketplaceFee(s, sender, newFee) ==
    onlyRoleNFT("DEFAULT_ADMIN_ROLE", sender, s, LAMBDA s0 :
        IF newFee > MAX_FEE THEN Revert("Fee cannot exceed 10%", s0)
        ELSE Ok([s0 EXCEPT !.marketplaceFee = newFee]))

updateFeeRecipient(s, sender, newRecipient) ==
    onlyRoleNFT("DEFAULT_ADMIN_ROLE", sender, s, LAMBDA s0 :
        IF newRecipient = ZERO THEN Revert("Invalid recipient", s0)
        ELSE Ok([s0 EXCEPT !.feeRecipient = newRecipient]))

\* A burn that leaves the value record and the listing in place.
_burn_keepsData(s, tokenId) ==
    LET contentId == s.valueData[tokenId].contentId
        s1 == [s EXCEPT !.owners[tokenId] = ZERO]
    IN  IF contentId \in ContentIds
        THEN [s1 EXCEPT !.contentToToken[contentId] = 0] ELSE s1

_burn(s, tokenId) ==
    LET contentId == s.valueData[tokenId].contentId
        s1 == [s EXCEPT !.owners[tokenId] = ZERO, !.valueData[tokenId] = ZeroData]
        s2 == IF contentId \in ContentIds
              THEN [s1 EXCEPT !.contentToToken[contentId] = 0] ELSE s1
    IN  IF s2.tokenListings[tokenId] # ZERO
        THEN [s2 EXCEPT !.tokenListings[tokenId] = ZERO] ELSE s2

\* ERC721Burnable.burn, the inherited public entry point of _burn
burn(s, sender, tokenId) ==
    IF ~_exists(s, tokenId) THEN Revert("ERC721: invalid token ID", s)
    ELSE IF s.owners[tokenId] # sender
         THEN Revert("ERC721: caller is not token owner or approved", s)
    ELSE Ok(_burn(s, tokenId))

\* ERC721.transferFrom by the owner, the inherited public entry point
transferFrom(s, sender, to, tokenId) ==
    IF ~_exists(s, tokenId) THEN Revert("ERC721: invalid token ID", s)
    ELSE IF s.owners[tokenId] # sender
         THEN Revert("ERC721: caller is not token owner or approved", s)
    ELSE Ok([s EXCEPT !.owners[tokenId] = to])

----------------------------------------------------------------------------
(* Actions of the asset ledger *)

\* While mintValueNFT waits in onERC721Received of the receiving contract,
\* the only caller is that contract.
\* The token ids a call is made with: the minted ones and the next one, which
\* stands for every id that was never minted
CallTokenIds == {t \in TokenIds : t <= tokenIdCounter}

\* Whether the contracts among the receivers take what they are sent: an
\* account without code always does
Answers(receivers) == IF receivers \cap Contracts = {} THEN {TRUE} ELSE BOOLEAN

\* Who can make the next call: inside a receiver's callback the receiver;
\* after a reverted call nobody (the trace ends on the revert)
Callers == IF ev.err # "" THEN {} ELSE IF frame.open THEN {frame.to} ELSE Users

WriteNFT(s) ==
    /\ tokenIdCounter' = s.tokenIdCounter
    /\ owners' = s.owners
    /\ valueData' = s.valueData
    /\ contentToToken' = s.contentToToken
    /\ creatorTokens' = s.creatorTokens
    /\ tokenListings' = s.tokenListings
    /\ marketplaceFee' = s.marketplaceFee
    /\ feeRecipient' = s.feeRecipient
    /\ status' = s.status
    /\ eth' = s.eth

CommitNFTResult(op, who, r) ==
    /\ r.err = "" => steps < MaxStepsNFT
    /\ steps' = IF r.err = "" THEN steps + 1 ELSE steps
    /\ ev' = Event(op, who, r)
    /\ IF r.err = "" THEN WriteNFT(r.s) ELSE UNCHANGED nftVars
    /\ UNCHANGED <<now, tokenVars>>

CommitNFT(op, who, r) ==
    /\ ev.err = ""
    /\ who \in Callers
    /\ \E res \in {r} : CommitNFTResult(op, who, res)

\* mintValueNFT to an account without code runs to its end; to a contract it
\* stops in the receiver's callback (or is reverted by a receiver that
\* refuses the token) and MintReturn finishes it.
MintValueNFT(a, to, contentId, initialValue, accepts) ==
    LET r0 == mintValueNFT_begin(NftState, a, to, contentId, initialValue) IN
    /\ ev.err = ""
    /\ ~frame.open
    /\ mintValueNFT_requires(NftState, a, contentId, initialValue) = ""
            => tokenIdCounter < MaxTokens
    /\ IF r0.err = "" /\ to \in Contracts
       THEN IF accepts
            THEN /\ CommitNFT("onERC721Received", a, r0)
                 /\ frame' = [open |-> TRUE, sender |-> a, tokenId |-> tokenIdCounter,
                              to |-> to, contentId |-> contentId,
                              initialValue |-> initialValue]
            ELSE /\ CommitNFT("mintValueNFT", a,
                        Revert("ERC721: transfer to non ERC721Receiver implementer", NftState))
                 /\ UNCHANGED frame
       ELSE /\ CommitNFT("mintValueNFT", a,
                    Then(r0, LAMBDA s1 :
                        mintValueNFT_end(s1, tokenIdCounter, to, contentId, initialValue, now)))
            /\ UNCHANGED frame

MintReturn ==
    /\ ev.err = ""
    /\ frame.open
    /\ steps' = steps
    /\ \E r \in {mintValueNFT_end(NftState, frame.tokenId, frame.to, frame.contentId,
                                  frame.initialValue, now)} :
         /\ ev' = Event("mintValueNFT", frame.sender, r)
         /\ WriteNFT(r.s)
    /\ frame' = NoFrame
    /\ UNCHANGED <<now, tokenVars>>

UpdateValue(a, tokenId, m) ==
    /\ CommitNFT("updateValue", a, updateValue(NftState, a, tokenId, m, now))
    /\ UNCHANGED frame

ListNFT(a, tokenId, price) ==
    /\ CommitNFT("listNFT", a, listNFT(NftState, a, tokenId, price))
    /\ UNCHANGED frame

UnlistNFT(a, tokenId) ==
    /\ CommitNFT("unlistNFT", a, unlistNFT(NftState, a, tokenId))
    /\ UNCHANGED frame

BuyNFT(a, tokenId, value, accepts) ==
    /\ eth[a] >= value
    /\ CommitNFT("buyNFT", a, buyNFT(NftState, a, tokenId, value, accepts))
    /\ UNCHANGED frame

UpdateMarketplaceFee(a, newFee) ==
    /\ CommitNFT("updateMarketplaceFee", a, updateMarketplaceFee(NftState, a, newFee))
    /\ UNCHANGED frame

UpdateFeeRecipient(a, newRecipient) ==
    /\ CommitNFT("updateFeeRecipient", a, updateFeeRecipient(NftState, a, newRecipient))
    /\ UNCHANGED frame

\* A burn of the token being minted, from inside its callback, makes
\* _setTokenURI revert the whole mint: the same outcome as a refused token.
Burn(a, tokenId) ==
    /\ frame.open => tokenId # frame.tokenId
    /\ CommitNFT("burn", a, burn(NftState, a, tokenId))
    /\ UNCHANGED frame

TransferFrom(a, to, tokenId) ==
    /\ CommitNFT("transferFrom", a, transferFrom(NftState, a, to, tokenId))
    /\ UNCHANGED frame

\* A query that stores what it returns, as updateValue does.
GetCurrentValue_persisting(a, tokenId) ==
    LET r == getCurrentValue(tokenId) IN
    /\ ev.err = ""
    /\ a \in Callers
    /\ ev' = [op |-> "getCurrentValue", who |-> a, err |-> r.err,
              tokenId |-> tokenId, value |-> r.value]
    /\ IF r.err = ""
       THEN WriteNFT([NftState EXCEPT !.valueData[tokenId].currentValue = r.value,
                                      !.valueData[tokenId].lastValueUpdate = now])
       ELSE UNCHANGED nftVars
    /\ UNCHANGED <<now, steps, tokenVars, frame>>

\* lines 530-533: the external view getCurrentValue; ev keeps the token asked
\* about and the value returned
GetCurrentValue(a, tokenId) ==
    LET r == getCurrentValue(tokenId) IN
    /\ ev.err = ""
    /\ a \in Callers
    /\ ev' = [op |-> "getCurrentValue", who |-> a, err |-> r.err,
              tokenId |-> tokenId, value |-> r.value]
    /\ UNCHANGED <<now, steps, tokenVars, nftVars, frame>>

TickNFT(d) ==
    /\ ev.err = ""
    /\ ~frame.open
    /\ now + d <= MaxTimeNFT
    /\ steps < MaxStepsNFT
    /\ steps' = steps + 1
    /\ now' = now + d
    /\ ev' = [op |-> "tick", who |-> "none", err |-> ""]
    /\ UNCHANGED <<tokenVars, nftVars, frame>>

InitNFT ==
    /\ tokenIdCounter = 0
    /\ owners = [t \in TokenIds |-> ZERO]
    /\ valueData = [t \in TokenIds |-> ZeroData]
    /\ contentToToken = [c \in ContentIds |-> 0]
    /\ creatorTokens = [a \in Users |-> <<>>]
    /\ tokenListings = [t \in TokenIds |-> ZERO]
    /\ marketplaceFee = 250
    /\ feeRecipient = Deployer
    /\ status = NOT_ENTERED
    /\ eth = [h \in Payees |-> IF h = NFT THEN 0 ELSE StartingEther]
    /\ frame = NoFrame

Init ==
    /\ now = 0
    /\ steps = 0
    /\ ev = [op |-> "init", who |-> "none", err |-> ""]
    /\ InitToken
    /\ InitNFT

Next ==
    \/ \E a \in Accounts, to \in Accounts, m \in MintAmounts : Mint(a, to, m)
    \/ \E a \in Accounts : Pause(a)
    \/ \E a \in Accounts : Unpause(a)
    \/ \E a \in Accounts, m \in StakeAmounts, l \in LockPeriods : Stake(a, m, l)
    \/ \E a \in Accounts, m \in UnstakeAmounts : Unstake(a, m)
    \/ \E a \in Accounts : ClaimRewards(a)
    \/ \E a \in Accounts, m \in FundAmounts : DistributeRewards(a, m)
    \/ \E a \in Accounts, r \in RateInputs : UpdateRewardRate(a, r)
    \/ \E a \in Accounts : EmergencyWithdraw(a)
    \/ \E a \in Accounts, to \in Holders, m \in SendAmounts : Transfer(a, to, m)
    \/ \E d \in TickSteps : Tick(d)

Spec == Init /\ [][Next]_vars

\* The marketplace: every operation of the asset ledger that does not read
\* the clock.
NextMarket ==
    \/ \E a \in Callers, to \in Recipients, c \in ContentIds, v \in InitialValues :
          \E k \in Answers({to}) : MintValueNFT(a, to, c, v, k)
    \/ MintReturn
    \/ \E a \in Callers, t \in CallTokenIds, p \in Prices : ListNFT(a, t, p)
    \/ \E a \in Callers, t \in CallTokenIds : UnlistNFT(a, t)
    \/ \E a \in Callers, t \in CallTokenIds, v \in Payments :
          \E k \in Answers({owners[t], feeRecipient}) : BuyNFT(a, t, v, k)
    \/ \E a \in Callers, f \in FeeInputs : UpdateMarketplaceFee(a, f)
    \/ \E a \in Callers, r \in {ZERO, "alice"} : UpdateFeeRecipient(a, r)
    \/ \E a \in Callers, t \in CallTokenIds : Burn(a, t)
    \/ \E a \in Callers, to \in Recipients, t \in CallTokenIds : TransferFrom(a, to, t)

SpecMarket == Init /\ [][NextMarket]_vars

\* The valuation: the oracle's updates as time passes, among mints, listings,
\* sales and burns.
NextValue ==
    \/ \E a \in Callers, to \in Recipients, c \in ContentIds, v \in InitialValues :
          \E k \in Answers({to}) : MintValueNFT(a, to, c, v, k)
    \/ MintReturn
    \/ \E a \in Callers, t \in CallTokenIds, m \in MetricInputs : UpdateValue(a, t, m)
    \/ \E a \in Callers, t \in CallTokenIds, p \in Prices : ListNFT(a, t, p)
    \/ \E a \in Callers, t \in CallTokenIds, v \in Payments :
          \E k \in Answers({owners[t], feeRecipient}) : BuyNFT(a, t, v, k)
    \/ \E a \in Callers, t \in CallTokenIds : Burn(a, t)
    \/ \E d \in TickStepsNFT : TickNFT(d)

SpecValue == Init /\ [][NextValue]_vars

\* The decay: assets are minted and revalued while time passes in steps of
\* half a day, a day and eighteen days.
DecayTicks == {1, DAY, 18 * DAY}

NextDecay ==
    \/ \E a \in Callers, c \in ContentIds, v \in InitialValues :
          MintValueNFT(a, "alice", c, v, TRUE)
    \/ \E a \in Callers, t \in CallTokenIds, m \in MetricInputs : UpdateValue(a, t, m)
    \/ \E a \in Callers, t \in CallTokenIds : GetCurrentValue(a, t)
    \/ \E d \in DecayTicks : TickNFT(d)

SpecDecay == Init /\ [][NextDecay]_vars

\* The role-gated functions of both contracts.  While a mint waits in the
\* receiver's callback the receiver is the only caller.
NextRoles ==
    \/ \E a \in Callers \cap Accounts, to \in Accounts, m \in MintAmounts : Mint(a, to, m)
    \/ \E a \in Callers \cap Accounts : Pause(a)
    \/ \E a \in Callers \cap Accounts : Unpause(a)
    \/ \E a \in Callers \cap Accounts, m \in FundAmounts : DistributeRewards(a, m)
    \/ \E a \in Callers \cap Accounts, r \in RateInputs : UpdateRewardRate(a, r)
    \/ \E a \in Callers \cap Accounts : EmergencyWithdraw(a)
    \/ \E a \in Callers, to \in Recipients, c \in ContentIds, v \in InitialValues :
          \E k \in Answers({to}) : MintValueNFT(a, to, c, v, k)
    \/ MintReturn
    \/ \E a \in Callers, t \in CallTokenIds, m \in MetricInputs : UpdateValue(a, t, m)
    \/ \E a \in Callers, f \in FeeInputs : UpdateMarketplaceFee(a, f)
    \/ \E a \in Callers, r \in {ZERO, "alice"} : UpdateFeeRecipient(a, r)

SpecRoles == Init /\ [][NextRoles]_vars

\* One stake left alone: the admin may set the rate and tokens may move
\* before anybody stakes; once an account has staked, time passes and no
\* call is made.
AccrualAmounts == {500, 1000}
AccrualTicks   == {1, 30 * DAY, 365 * DAY}

NextAccrual ==
    \/ /\ totalStaked = 0
       /\ \E a \in Accounts, r \in RateInputs : UpdateRewardRate(a, r)
    \/ /\ totalStaked = 0
       /\ \E a \in Accounts, to \in Holders, m \in SendAmounts : Transfer(a, to, m)
    \/ /\ totalStaked = 0
       /\ \E a \in Accounts, m \in AccrualAmounts, l \in LockPeriods : Stake(a, m, l)
    \/ \E d \in AccrualTicks : Tick(d)

SpecAccrual == Init /\ [][NextAccrual]_vars

\* The settlements: stakes that are funded, left to accrue and claimed.
SettleTicks == {DAY, 30 * DAY, 365 * DAY}

NextSettle ==
    \/ \E a \in Accounts, r \in RateInputs : UpdateRewardRate(a, r)
    \/ \E a \in Accounts, m \in StakeAmounts, l \in {30 * DAY} : Stake(a, m, l)
    \/ \E a \in Accounts, m \in FundAmounts : DistributeRewards(a, m)
    \/ \E a \in Accounts : ClaimRewards(a)
    \/ \E d \in SettleTicks : Tick(d)

SpecSettle == Init /\ [][NextSettle]_vars

----------------------------------------------------------------------------
(* Properties of the staking ledger, checked under Spec *)

RECURSIVE SumStaked(_)
SumStaked(S) ==
    IF S = {} THEN 0
    ELSE LET a == CHOOSE x \in S : TRUE IN stakes[a].amount + SumStaked(S \ {a})

\* C1: in every reachable state totalStaked equals the sum of stake.amount
\* over all accounts.
C1_TotalStakedIsSum == totalStaked = SumStaked(Accounts)

\* Two accounts hold different stakes and the last call was a partial unstake.
C1_Witness ==
    /\ ev.op = "unstake" /\ ev.err = ""
    /\ \A a \in Accounts : stakes[a].amount > 0
    /\ \E a, b \in Accounts : stakes[a].amount # stakes[b].amount

\* C2: the reward pool is never negative, and a claimRewards or unstake by an
\* account whose settled reward exceeds the pool fails and leaves the pool,
\* every balance, the reward balances and the stake records as they were.
C2_ClaimAtomic ==
    /\ [](rewardPool >= 0)
    /\ [][\A a \in Accounts :
            (/\ ev'.op \in {"claimRewards", "unstake"}
             /\ ev'.who = a
             /\ pendingRewards(a) > rewardPool)
            => (ev'.err # "" /\ UNCHANGED tokenVars)]_vars

\* A claim was refused for lack of pool while the pool was not empty.
C2_Witness ==
    /\ ev.op = "claimRewards"
    /\ ev.err = "Insufficient reward pool"
    /\ rewardPool > 0
    /\ pendingRewards(ev.who) > rewardPool

\* C7: only a successful stake() by the account moves the time from which
\* its unstake is permitted (timestamp + lockPeriod, as getStakeInfo reports).
C7_UnlockMovesOnlyOnStake ==
    [][\A a \in Accounts :
        unlockTime(a)' # unlockTime(a)
        => (ev'.op = "stake" /\ ev'.who = a /\ ev'.err = "")]_vars

\* C8: a successful updateRewardRate leaves pendingRewards of every account
\* as it was at the instant of the change.
C8_RateChangeKeepsPending ==
    [][(ev'.op = "updateRewardRate" /\ ev'.err = "")
        => \A a \in Accounts : pendingRewards(a)' = pendingRewards(a)]_vars

\* C16: while the token is paused no balance changes, the contract's own
\* included: stake, unstake, distributeRewards, mint and transfer fail, and
\* so does claimRewards of an account with a reward to collect.
C16_PausedFreezesBalances ==
    [][paused =>
        /\ balances' = balances
        /\ ev'.op \in {"stake", "unstake", "distributeRewards", "mint", "transfer"}
              => ev'.err # ""
        /\ \A a \in Accounts :
              (ev'.op = "claimRewards" /\ ev'.who = a /\ pendingRewards(a) > 0)
              => ev'.err # ""]_vars

\* An unstake whose lock has expired was stopped by the pause while the
\* contract holds staked tokens.
C16_Witness ==
    /\ paused
    /\ ev.op = "unstake"
    /\ ev.err = "ERC20Pausable: token transfer while paused"
    /\ balances[BBT] > 0
    /\ canUnstake(ev.who)

\* C17: emergencyWithdraw fails while the token is not paused; called by the
\* admin while it is paused it succeeds and moves the whole balance of the
\* contract to the admin.
C17_EmergencyWithdraw ==
    [][ev'.op = "emergencyWithdraw" =>
        IF ~paused THEN ev'.err # ""
        ELSE hasRole("DEFAULT_ADMIN_ROLE", ev'.who) =>
                /\ ev'.err = ""
                /\ balances'[BBT] = 0
                /\ balances'[ev'.who] = balances[ev'.who] + balances[BBT]]_vars

\* C18: rewardPool grows only in a successful distributeRewards, by the
\* amount of the call, which moves from the funder to the contract; it
\* shrinks only in a successful claimRewards or unstake, by the reward that
\* moves from the contract to the caller in that step (next to the tokens an
\* unstake returns).
C18_PoolMovesOnlyByFundAndPayout ==
    [][/\ rewardPool' > rewardPool =>
            /\ ev'.op = "distributeRewards" /\ ev'.err = ""
            /\ \E m \in FundAmounts :
                /\ DistributeRewards(ev'.who, m)
                /\ rewardPool' = rewardPool + m
                /\ balances'[ev'.who] = balances[ev'.who] - m
                /\ balances'[BBT] = balances[BBT] + m
       /\ rewardPool' < rewardPool =>
            /\ ev'.op \in {"claimRewards", "unstake"} /\ ev'.err = ""
            /\ LET a      == ev'.who
                   reward == rewardPool - rewardPool'
                   back   == stakes[a].amount - stakes'[a].amount
               IN  /\ balances'[a] = balances[a] + reward + back
                   /\ balances'[BBT] = balances[BBT] - reward - back
                   /\ ev'.op = "claimRewards" => back = 0]_vars

\* A claim has just been paid out of a funded pool, part of which is left.
C18_Witness ==
    /\ ev.op = "claimRewards" /\ ev.err = ""
    /\ rewardPool > 0
    /\ \A m \in FundAmounts : rewardPool % m # 0

\* C19: rewards[a] decreases only in a successful claimRewards or unstake of
\* a, where it becomes 0 and the account receives the whole of it (with what
\* accrued since the last settlement, and the tokens an unstake returns).
C19_RewardsDropOnlyOnPayout ==
    [][\A a \in Accounts :
        rewards'[a] < rewards[a] =>
            /\ ev'.op \in {"claimRewards", "unstake"}
            /\ ev'.who = a /\ ev'.err = ""
            /\ rewards'[a] = 0
            /\ LET paid == rewardPool - rewardPool'
                   back == stakes[a].amount - stakes'[a].amount
               IN  /\ paid = pendingRewards(a)
                   /\ paid >= rewards[a]
                   /\ balances'[a] = balances[a] + paid + back]_vars

\* A reward that a second stake had settled has been claimed: the account
\* holds two stakes of 400, and the pool of 100 has paid 4, which is what the
\* first stake alone earns in a year and the second stake wrote to rewards.
C19_Witness ==
    /\ ev.op = "claimRewards" /\ ev.err = ""
    /\ rewards[ev.who] = 0
    /\ stakes[ev.who].amount = 800
    /\ rewardPool = 96

\* C20: stake succeeds only with amount > 0, a lock period from 30 to 365
\* days and a balance of at least the amount; it fails for 29 and for 366
\* days and, unless the token is paused, succeeds for exactly 30 and exactly
\* 365 days; a failing stake changes no stake record, reward balance,
\* totalStaked or balance.
C20_StakePreconditions ==
    [][ev'.op = "stake" =>
        LET a == ev'.who
            m == stakes'[a].amount - stakes[a].amount
            l == stakes'[a].lockPeriod
        IN  /\ ev'.err = "" =>
                  /\ m > 0
                  /\ l >= 30 * DAY /\ l <= 365 * DAY
                  /\ balances[a] >= m
                  /\ balances'[a] = balances[a] - m
            /\ ev'.err # "" =>
                  UNCHANGED <<stakes, rewards, totalStaked, balances>>
            /\ \A amount \in StakeAmounts :
                  /\ \A lock \in {29 * DAY, 366 * DAY} :
                        stake(TokenState, a, amount, lock, now).err # ""
                  /\ (amount > 0 /\ balances[a] >= amount /\ ~paused) =>
                        \A lock \in {30 * DAY, 365 * DAY} :
                            stake(TokenState, a, amount, lock, now).err = ""]_vars

\* A stake for 29 days has just failed for an account that holds a stake,
\* while one stake for exactly 30 and one for exactly 365 days are in place.
C20_Witness ==
    /\ ev.op = "stake" /\ ev.err = "Minimum lock period is 30 days"
    /\ stakes[ev.who].amount > 0
    /\ \E a, b \in Accounts :
          /\ stakes[a].amount > 0 /\ stakes[a].lockPeriod = 30 * DAY
          /\ stakes[b].amount > 0 /\ stakes[b].lockPeriod = 365 * DAY

\* C21: unstake(amount) fails and changes nothing whenever amount exceeds
\* the caller's stake or the time is before timestamp + lockPeriod of the
\* caller's record; canUnstake of getStakeInfo is true exactly when the time
\* has reached timestamp + lockPeriod.
C21_UnstakePreconditions ==
    [][ev'.op = "unstake" =>
        LET a == ev'.who
            locked == now < stakes[a].timestamp + stakes[a].lockPeriod
        IN  /\ ev'.err = "" =>
                  /\ ~locked
                  /\ stakes'[a].amount <= stakes[a].amount
                  /\ stakes'[a].amount >= 0
            /\ ev'.err # "" => UNCHANGED tokenVars
            /\ \A amount \in UnstakeAmounts :
                  (amount > stakes[a].amount \/ locked) =>
                        unstake(TokenState, a, amount, now).err # ""
            /\ \A b \in Accounts :
                  canUnstake(b) <=> now >= stakes[b].timestamp + stakes[b].lockPeriod]_vars

\* An unstake of more than the 200 that a first unstake left has just
\* failed, while the stake of another account is still locked.
C21_Witness ==
    /\ ev.op = "unstake" /\ ev.err = "Insufficient staked amount"
    /\ stakes[ev.who].amount = 200
    /\ \E b \in Accounts \ {ev.who} : stakes[b].amount > 0 /\ ~canUnstake(b)

\* C22: a successful stake(amount, lockPeriod) at time now adds to rewards
\* what the previous amount accrued up to now, moves exactly amount tokens
\* from the caller to the contract, leaves the caller's record with the old
\* amount plus amount, timestamp = now and the lock period of the call, and
\* adds amount to totalStaked.
C22_StakeEffect ==
    [][(ev'.op = "stake" /\ ev'.err = "") =>
        LET a == ev'.who
            credited == rewards[a]
                + (stakes[a].amount * rewardRate * (now - stakes[a].timestamp))
                    \div (365 * DAY * 10000)
            After(m, l, st, rw, bal, total) ==
                /\ st = [stakes EXCEPT ![a].amount = @ + m,
                                       ![a].timestamp = now,
                                       ![a].lockPeriod = l]
                /\ rw = [rewards EXCEPT ![a] = credited]
                /\ bal = [balances EXCEPT ![a] = @ - m, ![BBT] = @ + m]
                /\ total = totalStaked + m
        IN  /\ After(stakes'[a].amount - stakes[a].amount, stakes'[a].lockPeriod,
                     stakes', rewards', balances', totalStaked')
            /\ stakes'[a].amount > stakes[a].amount
            /\ \A m \in StakeAmounts, l \in LockPeriods :
                  (m > 0 /\ l >= MIN_LOCK /\ l <= MAX_LOCK /\ balances[a] >= m) =>
                      LET r == stake(TokenState, a, m, l, now)
                      IN  r.err = "" /\ After(m, l, r.s.stakes, r.s.rewards,
                                               r.s.balances, r.s.totalStaked)]_vars

\* A second stake has just settled a positive reward and replaced the lock
\* of the merged position of 800 by the minimum lock, counted from now.
C22_Witness ==
    /\ ev.op = "stake" /\ ev.err = ""
    /\ rewards[ev.who] > 0
    /\ stakes[ev.who] = [amount |-> 800, timestamp |-> now, rewardDebt |-> 0,
                          lockPeriod |-> MIN_LOCK]
    /\ totalStaked = 800 /\ balances[BBT] >= 800

\* C23: pendingRewards(a) is the settled reward of a plus
\* floor(amount * rewardRate * (now - timestamp) / (365 days * 10000)), and a
\* successful claimRewards by a pays a exactly what pendingRewards(a)
\* returned at the same time.
C23_PendingIsWhatClaimPays ==
    [][/\ \A a \in Accounts :
            pendingRewards(a) = rewards[a]
                + (stakes[a].amount * rewardRate * (now - stakes[a].timestamp))
                    \div (365 * DAY * 10000)
       /\ (ev'.op = "claimRewards" /\ ev'.err = "") =>
            /\ rewardPool - rewardPool' = pendingRewards(ev'.who)
            /\ balances'[ev'.who] - balances[ev'.who] = pendingRewards(ev'.who)
            /\ balances[BBT] - balances'[BBT] = pendingRewards(ev'.who)]_vars

\* A claim has just paid the 4 that a single stake of 400 earns in a year
\* out of a pool of 100.
C23_Witness ==
    /\ ev.op = "claimRewards" /\ ev.err = ""
    /\ stakes[ev.who].amount = 400
    /\ rewardPool = 96
    /\ balances[ev.who] = INITIAL_SUPPLY - 100 - 400 + 4
    /\ pendingRewards(ev.who) = 0

\* C24, under SpecAccrual: an account that has staked amount once at rate
\* rewardRate and made no call since has a pending reward of
\* floor(amount * rewardRate * e / (365 days * 10000)) after the time e;
\* after exactly 365 days that is amount * rewardRate / 10000, which is 5 for
\* a stake of 500 at 100 basis points.
C24_OneYearReward ==
    \A a \in Accounts : stakes[a].amount > 0 =>
        LET e == now - stakes[a].timestamp
        IN  /\ pendingRewards(a) * (365 * DAY * 10000)
                    <= stakes[a].amount * rewardRate * e
            /\ stakes[a].amount * rewardRate * e
                    < (pendingRewards(a) + 1) * (365 * DAY * 10000)
            /\ e = 365 * DAY =>
                    pendingRewards(a) * 10000 = stakes[a].amount * rewardRate
            /\ (e = 365 * DAY /\ stakes[a].amount = 500 /\ rewardRate = 100) =>
                    pendingRewards(a) = 5

\* A stake of 500 at 100 basis points is exactly one year old.
C24_Witness ==
    \E a \in Accounts :
        /\ stakes[a].amount = 500 /\ rewardRate = 100
        /\ now - stakes[a].timestamp = 365 * DAY
        /\ stakes[a].timestamp > 0
        /\ pendingRewards(a) = 5

\* C25: rewardRate is at most 2000 basis points in every state; an
\* updateRewardRate with more than 2000 fails and leaves the rate as it was,
\* and one with at most 2000 by the admin succeeds and makes it the rate.
C25_RateCapped ==
    [][/\ rewardRate <= 2000 /\ rewardRate' <= 2000
       /\ ev'.op = "updateRewardRate" =>
            \A r \in RateInputs : UpdateRewardRate(ev'.who, r) =>
                /\ r > 2000 => (ev'.err # "" /\ rewardRate' = rewardRate)
                /\ (r <= 2000 /\ hasRole("DEFAULT_ADMIN_ROLE", ev'.who)) =>
                        (ev'.err = "" /\ rewardRate' = r)
                /\ ev'.err # "" => rewardRate' = rewardRate]_vars

\* The admin has raised the rate to the cap, and a call with 2001 has just
\* failed.
C25_Witness ==
    /\ ev.op = "updateRewardRate" /\ ev.err = "Reward rate cannot exceed 20%"
    /\ rewardRate = 2000

RECURSIVE SumOver(_, _)
SumOver(f, S) ==
    IF S = {} THEN 0
    ELSE LET h == CHOOSE x \in S : TRUE IN f[h] + SumOver(f, S \ {h})

\* C27: the balances of all holders add up to totalSupply, which is at most
\* MAX_SUPPLY in every state; a mint that would take the supply above
\* MAX_SUPPLY fails and changes nothing; the supply changes in no step other
\* than a successful mint, so payouts and unstakes create no tokens.
C27_SupplyCapped ==
    [][/\ SumOver(balances, Holders) = totalSupply
       /\ SumOver(balances', Holders) = totalSupply'
       /\ totalSupply <= MAX_SUPPLY /\ totalSupply' <= MAX_SUPPLY
       /\ totalSupply' # totalSupply => (ev'.op = "mint" /\ ev'.err = "")
       /\ ev'.op = "mint" =>
            /\ ev'.err # "" => UNCHANGED tokenVars
            /\ \A to \in Accounts, m \in MintAmounts :
                  totalSupply + m > MAX_SUPPLY =>
                        mint(TokenState, ev'.who, to, m).err # ""]_vars

\* The supply stands at MAX_SUPPLY, part of it staked, and a further mint
\* has just failed.
C27_Witness ==
    /\ ev.op = "mint" /\ ev.err = "Exceeds max supply"
    /\ totalSupply = MAX_SUPPLY
    /\ totalStaked > 0

\* The lock periods getStakingAPR is asked about: both sides of every tier.
AprLocks ==
    {0, 90 * DAY - 1, 90 * DAY, 180 * DAY - 1, 180 * DAY, 364 * DAY,
     365 * DAY - 1, 365 * DAY, 366 * DAY}

\* C30, under SpecAccrual: getStakingAPR(l) is the current rewardRate plus
\* 500 for l >= 365 days, plus 300 for 180 days <= l < 365 days, plus 100
\* for 90 days <= l < 180 days and plus 0 below 90 days; it does not
\* decrease as l grows.
C30_AprTiers ==
    /\ \A l \in AprLocks :
          /\ l >= 365 * DAY => getStakingAPR(l) = rewardRate + 500
          /\ (180 * DAY <= l /\ l < 365 * DAY) => getStakingAPR(l) = rewardRate + 300
          /\ (90 * DAY <= l /\ l < 180 * DAY) => getStakingAPR(l) = rewardRate + 100
          /\ l < 90 * DAY => getStakingAPR(l) = rewardRate
    /\ \A l1, l2 \in AprLocks : l1 <= l2 => getStakingAPR(l1) <= getStakingAPR(l2)

\* The admin has raised the rate to 2000: a year's lock is quoted 2500 and
\* half a day less 2300.
C30_Witness ==
    /\ ev.op = "updateRewardRate" /\ ev.err = ""
    /\ rewardRate = 2000
    /\ getStakingAPR(365 * DAY) = 2500
    /\ getStakingAPR(365 * DAY - 1) = 2300
    /\ getStakingAPR(90 * DAY - 1) = 2000

\* C33: in every reachable state the contract's own token balance is at
\* least totalStaked + rewardPool.
C33_CustodyBacksStakesAndPool ==
    balances[BBT] >= totalStaked + rewardPool

\* With stakes and a funded pool in custody, and tokens sent to the contract
\* directly on top of them, an emergencyWithdraw has just been called while
\* paused.
C33_Witness ==
    /\ ev.op = "emergencyWithdraw" /\ paused
    /\ hasRole("DEFAULT_ADMIN_ROLE", ev.who)
    /\ totalStaked > 0 /\ rewardPool > 0
    /\ balances[BBT] > totalStaked + rewardPool

\* C34: whenever the token is not paused, the lock of the caller's stake has
\* expired and the amount is at most the stake, unstake(amount) succeeds,
\* whatever the reward pool holds.
C34_UnstakeAlwaysPossible ==
    [][ev'.op = "unstake" =>
        \A amount \in UnstakeAmounts :
            (/\ ~paused
             /\ now >= stakes[ev'.who].timestamp + stakes[ev'.who].lockPeriod
             /\ amount <= stakes[ev'.who].amount)
            => unstake(TokenState, ev'.who, amount, now).err = ""]_vars

\* What claimRewards credits when it settles the stake of a at t1 = now,
\* what a further settlement at t2 would credit after it, and what one
\* settlement at t2 would have credited instead, as [split, single].
SettledTwice(a, t2, before, after) ==
    [split  |-> AccruedReward(before, a, now) + AccruedReward(after, a, t2),
     single |-> AccruedReward(before, a, t2)]

\* C38 as stated: settling at an intermediate time t1 and again at t2
\* credits at most what one settlement at t2 credits with the same amount
\* and rate, and less than one unit less.
C38_SplitLosesLessThanOne ==
    [][(ev'.op = "claimRewards" /\ ev'.err = "" /\ stakes[ev'.who].amount > 0) =>
          \A t2 \in now .. MaxTime :
              LET r == SettledTwice(ev'.who, t2, TokenState, TokenState')
              IN  r.split <= r.single /\ r.single - r.split < 1]_vars

\* C38, amended: claimRewards pays the settled reward and the accrual up to
\* t1 = now and keeps amount and rate; that accrual plus what a further
\* settlement at any later t2 credits is at most what one settlement at t2
\* would have credited, and at most one unit less.
C38_SplitSettlement ==
    [][(ev'.op = "claimRewards" /\ ev'.err = "" /\ stakes[ev'.who].amount > 0) =>
          LET a == ev'.who
          IN  /\ balances'[a] = balances[a] + rewards[a]
                                    + AccruedReward(TokenState, a, now)
              /\ stakes'[a].amount = stakes[a].amount
              /\ stakes'[a].timestamp = now
              /\ rewardRate' = rewardRate
              /\ \A t2 \in now .. MaxTime :
                    LET r == SettledTwice(a, t2, TokenState, TokenState')
                    IN  r.split <= r.single /\ r.single - r.split <= 1]_vars

\* The deployer staked 400 at time 0 at 2000 basis points and claimed after
\* 30 days: 6 were paid, another 30 days would credit 6 again, 12 in all,
\* where one settlement after 60 days credits 13.
C38_Witness ==
    /\ ev.op = "claimRewards" /\ ev.err = "" /\ ev.who = Deployer
    /\ now = 30 * DAY
    /\ stakes[Deployer] = [amount |-> 400, timestamp |-> 30 * DAY,
                            rewardDebt |-> 0, lockPeriod |-> 30 * DAY]
    /\ rewardRate = 2000
    /\ balances[Deployer] = INITIAL_SUPPLY - 400 - 100 + 6
    /\ AccruedReward(TokenState, Deployer, 60 * DAY) = 6
    /\ (400 * 2000 * 60 * DAY) \div (SECONDS_PER_YEAR * BPS) = 13

----------------------------------------------------------------------------
(* Properties of the asset ledger *)

\* C3: in every reachable state every value record has
\* currentValue >= initialValue / 10 (integer division).
C3_ValueFloor ==
    \A t \in TokenIds :
        valueData[t].currentValue >= valueData[t].initialValue \div 10

\* The oracle has just updated an asset and its value rests on the floor,
\* below the value it was minted with.
C3_Witness ==
    /\ ev.op = "updateValue" /\ ev.err = ""
    /\ \E t \in TokenIds :
        /\ valueData[t].initialValue > 0
        /\ valueData[t].lastValueUpdate = now
        /\ valueData[t].currentValue = valueData[t].initialValue \div 10

\* C4: no two live assets carry the same contentId.
C4_ContentIdsUnique ==
    \A t1, t2 \in TokenIds :
        (/\ t1 # t2
         /\ _exists(NftState, t1) /\ _exists(NftState, t2)
         /\ valueData[t1].contentId \in ContentIds)
        => valueData[t1].contentId # valueData[t2].contentId

\* C5: between calls, for every asset id the listing index names a lister
\* exactly when isListed is set, and listPrice > 0 exactly when isListed.
C5_ListingIffListed ==
    ~frame.open =>
        \A t \in TokenIds :
            /\ (tokenListings[t] # ZERO) <=> valueData[t].isListed
            /\ (valueData[t].listPrice > 0) <=> valueData[t].isListed

\* C6: while mintValueNFT waits in the receiver's callback, no mutating
\* operation of the ledger called from that callback succeeds.
C6_NoReentry ==
    frame.open =>
        ~(/\ ev.err = ""
          /\ ev.op \in {"mintValueNFT", "listNFT", "unlistNFT", "buyNFT",
                        "updateValue", "burn"})

\* C9: a successful buyNFT of an asset listed at P by the owner `seller` takes
\* P from the buyer, pays floor(P * marketplaceFee / 10000) to the fee
\* recipient and the rest of P to the seller, keeps nothing in the contract,
\* clears the listing and makes the buyer the owner, in the one step.
C9_BuySplit ==
    [][(ev'.op = "buyNFT" /\ ev'.err = "") =>
       \A a \in Users, t \in TokenIds, v \in Payments :
        \A k \in Answers({owners[t], feeRecipient}) :
        (ev'.who = a /\ BuyNFT(a, t, v, k))
        => LET P      == valueData[t].listPrice
               fee    == (P * marketplaceFee) \div 10000
               seller == owners[t]
           IN  /\ v = P /\ P > 0 /\ marketplaceFee \in 0 .. 1000
               /\ \A h \in Payees :
                    eth'[h] = eth[h] - (IF h = a THEN P ELSE 0)
                                     + (IF h = seller THEN P - fee ELSE 0)
                                     + (IF h = feeRecipient THEN fee ELSE 0)
               /\ owners'[t] = a
               /\ ~valueData'[t].isListed
               /\ valueData'[t].listPrice = 0
               /\ tokenListings'[t] = ZERO]_vars

\* An asset has just been sold with a fee that does not divide evenly:
\* buyer, seller and fee recipient are three accounts, and the seller and
\* the fee recipient hold what they started with plus their share.
C9_Witness ==
    /\ ev.op = "buyNFT" /\ ev.err = ""
    /\ (399 * marketplaceFee) % 10000 # 0
    /\ \E seller \in Users \ {ev.who, feeRecipient} :
        /\ ev.who # feeRecipient
        /\ eth[ev.who] = StartingEther - 399
        /\ eth[seller] = StartingEther + 399 - (399 * marketplaceFee) \div 10000
        /\ eth[feeRecipient] = StartingEther + (399 * marketplaceFee) \div 10000

\* C10: a buyNFT of an asset that is not listed, or with a payment other than
\* its list price, fails and changes nothing on the asset ledger: owners,
\* flags, prices, the lister index and every ether balance stay as they were.
C10_FailedBuyNoEffect ==
    [][ev'.op = "buyNFT" =>
       \A a \in Users, t \in TokenIds, v \in Payments :
        \A k \in Answers({owners[t], feeRecipient}) :
        (/\ ev'.who = a
         /\ ~valueData[t].isListed \/ v # valueData[t].listPrice
         /\ BuyNFT(a, t, v, k))
        => (ev'.err # "" /\ UNCHANGED nftVars)]_vars

\* A buyer who could afford it offered more than the list price of a listed
\* asset and was refused; the asset is still listed by its owner.
C10_Witness ==
    /\ ev.op = "buyNFT" /\ ev.err = "Incorrect payment amount"
    /\ \E t \in TokenIds :
        /\ valueData[t].isListed
        /\ valueData[t].listPrice < eth[ev.who]
        /\ tokenListings[t] = owners[t]
        /\ owners[t] # ev.who

\* C11: right after a successful updateValue of an asset, getCurrentValue of
\* that asset at the same time returns the currentValue the update stored.
C11_QueryAgreesWithUpdate ==
    [][(ev'.op = "updateValue" /\ ev'.err = "") =>
       \A a \in Users, t \in TokenIds, m \in MetricInputs :
        (ev'.who = a /\ UpdateValue(a, t, m))
        => queryCurrentValue(owners', valueData', now', t)
               = [err |-> "", value |-> valueData'[t].currentValue]]_vars

\* C12: an asset minted at this very time, still with the scores and the
\* action count of its mint, is valued by getCurrentValue at its initialValue.
C12_FreshValueIsInitial ==
    \A t \in TokenIds :
        (/\ owners[t] # ZERO
         /\ valueData[t].initialValue > 0
         /\ valueData[t].mintTimestamp = now
         /\ valueData[t].lastValueUpdate = now
         /\ valueData[t].impactScore = 5000
         /\ valueData[t].engagementScore = 5000
         /\ valueData[t].qualityScore = 7500
         /\ valueData[t].actionCount = 0)
        => getCurrentValue(t) = [err |-> "", value |-> valueData[t].initialValue]

\* C13: for the action count a of every value record the multiplier of the
\* calculation is min(10000 + 100 * a, 100 * 10000), so it is above the base
\* 10000 as soon as one action is recorded.
C13_ActionMultiplierGrows ==
    \A t \in TokenIds :
        LET a   == valueData[t].actionCount
            cap == 100 * 10000
        IN  /\ actionMultiplier(a) =
                    (IF 10000 + 100 * a > cap THEN cap ELSE 10000 + 100 * a)
            /\ a > 0 => actionMultiplier(a) > actionMultiplier(0)

\* C14: in every reachable state the three scores of every value record lie
\* in 0 .. 10000.
C14_ScoresInRange ==
    \A t \in TokenIds :
        /\ valueData[t].impactScore \in 0 .. 10000
        /\ valueData[t].engagementScore \in 0 .. 10000
        /\ valueData[t].qualityScore \in 0 .. 10000

\* C26: marketplaceFee is at most 1000 basis points in every state and an
\* updateMarketplaceFee with more than 1000 fails; on every sale the fee is
\* at most a tenth of the price and the seller receives at least nine tenths.
C26_FeeCapped ==
    [][/\ marketplaceFee <= 1000 /\ marketplaceFee' <= 1000
       /\ ev'.op = "updateMarketplaceFee" =>
            \A f \in FeeInputs :
                (f > 1000 /\ UpdateMarketplaceFee(ev'.who, f)) =>
                    (ev'.err # "" /\ marketplaceFee' = marketplaceFee)
       /\ (ev'.op = "buyNFT" /\ ev'.err = "") =>
            \A t \in TokenIds :
                (valueData[t].isListed /\ ~valueData'[t].isListed) =>
                    LET P      == valueData[t].listPrice
                        fee    == (P * marketplaceFee) \div 10000
                        seller == owners[t]
                        got    == eth'[seller] - eth[seller]
                                    + (IF seller = ev'.who THEN P ELSE 0)
                    IN  /\ P > 0
                        /\ fee * 10 <= P
                        /\ got >= P - fee
                        /\ got * 10 >= P * 9]_vars

\* An asset has just been sold at the highest fee: of the 399 paid the
\* seller has received 360.
C26_Witness ==
    /\ ev.op = "buyNFT" /\ ev.err = ""
    /\ marketplaceFee = 1000
    /\ \E seller \in Users \ {ev.who, feeRecipient} :
          eth[seller] = StartingEther + 360

\* C28: a successful burn of a token leaves its value record empty, its
\* content id unmapped (so that a mint of the same content id passes its
\* checks) and its listing entry cleared; a burnt token is not listed, is not
\* among the tokens getListedNFTs returns, and every buyNFT on it fails.
C28_BurnClears ==
    [][/\ (ev'.op = "burn" /\ ev'.err = "") =>
            \A t \in TokenIds : (owners[t] # ZERO /\ owners'[t] = ZERO) =>
                LET c == valueData[t].contentId
                IN  /\ valueData'[t] = ZeroData
                    /\ tokenListings'[t] = ZERO
                    /\ c \in ContentIds
                    /\ contentToToken'[c] = 0
                    /\ mintValueNFT_requires(NftState', Deployer, c, 30) = ""
       /\ \A t \in TokenIds : (t < tokenIdCounter' /\ owners'[t] = ZERO) =>
            /\ ~valueData'[t].isListed
            /\ tokenListings'[t] = ZERO
            /\ t \notin getListedNFTs(NftState')
            /\ \A a \in Users, v \in Payments :
                  buyNFT(NftState', a, t, v, TRUE).err # ""]_vars

\* Token 1 has just been burnt while token 0 is still there and listed.
C28_Witness ==
    /\ ev.op = "burn" /\ ev.err = ""
    /\ tokenIdCounter = 2
    /\ owners[1] = ZERO /\ valueData[1] = ZeroData
    /\ owners[0] # ZERO /\ getListedNFTs(NftState) = {0}

\* C29: listNFT succeeds only for the owner of the token, with a price above
\* 0 and a token that is not listed; unlistNFT succeeds only for the owner of
\* a listed token; a failing listNFT or unlistNFT leaves every listing flag,
\* list price and listing entry as it was.
C29_ListUnlistPreconditions ==
    [][/\ ev'.op = "listNFT" =>
            /\ ev'.err # "" => UNCHANGED <<valueData, tokenListings>>
            /\ ev'.err = "" => \E t \in TokenIds :
                  /\ owners[t] = ev'.who
                  /\ ~valueData[t].isListed
                  /\ valueData'[t].isListed /\ valueData'[t].listPrice > 0
            /\ \A t \in TokenIds, p \in Prices :
                  listNFT(NftState, ev'.who, t, p).err = "" =>
                      (owners[t] = ev'.who /\ p > 0 /\ ~valueData[t].isListed)
       /\ ev'.op = "unlistNFT" =>
            /\ ev'.err # "" => UNCHANGED <<valueData, tokenListings>>
            /\ ev'.err = "" => \E t \in TokenIds :
                  /\ owners[t] = ev'.who
                  /\ valueData[t].isListed
                  /\ ~valueData'[t].isListed
            /\ \A t \in TokenIds :
                  unlistNFT(NftState, ev'.who, t).err = "" =>
                      (owners[t] = ev'.who /\ valueData[t].isListed)]_vars

\* A second listNFT by the owner of a listed token has just failed and the
\* listing stands.
C29_Witness ==
    /\ ev.op = "listNFT" /\ ev.err = "Already listed"
    /\ \E t \in TokenIds :
          /\ owners[t] = ev.who /\ tokenListings[t] = ev.who
          /\ valueData[t].isListed /\ valueData[t].listPrice = 399

\* C31, under SpecDecay: while a value record is not updated, the decay
\* multiplier and the value _calculateValue returns do not increase as time
\* passes, and as long as less than a day has passed since the last update
\* the multiplier is that of no decay (1) and the value that of the time of
\* the update.
C31_DecayMonotone ==
    [][ev'.op = "tick" =>
        \A t \in TokenIds : owners[t] # ZERO =>
            LET data   == valueData[t]
                before == _calculateValue(data, now)
                after  == _calculateValue(data, now')
                n1     == (now - data.lastValueUpdate) \div DAY
                n2     == (now' - data.lastValueUpdate) \div DAY
            IN  (before.err = "" /\ after.err = "") =>
                    /\ after.value <= before.value
                    /\ ~BigLess(decayMultiplier(n1), decayMultiplier(n2))
                    /\ now' - data.lastValueUpdate < DAY =>
                          /\ BigToInt(decayMultiplier(n2)) = 1
                          /\ after = _calculateValue(data, data.lastValueUpdate)]_vars

\* Time has just passed over a record whose value stood above the floor
\* when it was updated and is on the floor now, a day or more later.
C31_Witness ==
    /\ ev.op = "tick"
    /\ \E t \in TokenIds :
        /\ owners[t] # ZERO
        /\ valueData[t].initialValue > 0
        /\ valueData[t].lastValueUpdate + DAY <= now
        /\ _calculateValue(valueData[t], valueData[t].lastValueUpdate).value
                > valueData[t].initialValue \div 10
        /\ _calculateValue(valueData[t], now)
                = [err |-> "", value |-> valueData[t].initialValue \div 10]

\* C32, under SpecDecay: getCurrentValue writes no variable of either
\* contract, it returns what _calculateValue gives for the stored record at
\* the time of the call, and a second call for the same token right after
\* the first returns the same value.
C32_QueryIdempotent ==
    [][ev'.op = "getCurrentValue" =>
        /\ UNCHANGED <<nftVars, tokenVars, now>>
        /\ ev'.err = "" =>
              ev'.value = _calculateValue(valueData'[ev'.tokenId], now').value
        /\ (ev.op = "getCurrentValue" /\ ev.tokenId = ev'.tokenId) =>
              (ev'.err = ev.err /\ ev'.value = ev.value)]_vars

\* A record that was updated some time ago has just been queried: the value
\* returned is not the stored one, and the record still carries the stored
\* value and the time of its update.
C32_Witness ==
    /\ ev.op = "getCurrentValue" /\ ev.err = ""
    /\ valueData[ev.tokenId].currentValue # ev.value
    /\ valueData[ev.tokenId].lastValueUpdate > valueData[ev.tokenId].mintTimestamp
    /\ valueData[ev.tokenId].lastValueUpdate < now

\* C35: for every listed token the account recorded in tokenListings is the
\* owner of the token (between calls), so that the seller's share of a
\* buyNFT goes to the account that made the listing.
C35_ListerIsOwner ==
    ~frame.open =>
        \A t \in TokenIds :
            (owners[t] # ZERO /\ valueData[t].isListed)
                => tokenListings[t] = owners[t]

\* C36, under SpecDecay: for every existing token, however long ago its last
\* update was, getCurrentValue returns a value and an updateValue by the
\* oracle succeeds.
C36_ValueAlwaysComputable ==
    \A t \in TokenIds : owners[t] # ZERO =>
        /\ getCurrentValue(t).err = ""
        /\ \A m \in MetricInputs :
              updateValue(NftState, Deployer, t, m, now).err = ""

\* The listed existing tokens with an id below n, in ascending order.
RECURSIVE ListedBelow(_)
ListedBelow(n) ==
    IF n = 0 THEN <<>>
    ELSE IF owners[n - 1] # ZERO /\ valueData[n - 1].isListed
         THEN Append(ListedBelow(n - 1), n - 1)
         ELSE ListedBelow(n - 1)

\* The pages of the given limit from the given offset on, one after another.
RECURSIVE PagesFrom(_, _, _)
PagesFrom(offset, limit, total) ==
    IF offset >= total THEN <<>>
    ELSE getListedNFTsPage(NftState, offset, limit).tokenIds
            \o PagesFrom(offset + limit, limit, total)

\* C37: getListedNFTs(offset, limit) returns the listed existing tokens at
\* the positions offset .. offset + limit - 1 of their ascending sequence,
\* each with its list price; the pages at offsets 0, limit, 2 * limit, ...
\* together give every listed token once, and no other token.
C37_ListedPages ==
    LET all == ListedBelow(tokenIdCounter)
    IN  /\ \A offset \in 0 .. MaxTokens, limit \in 0 .. MaxTokens :
              LET page == getListedNFTsPage(NftState, offset, limit)
                  last == IF offset + limit < Len(all) THEN offset + limit
                          ELSE Len(all)
              IN  /\ page.tokenIds = SubSeq(all, offset + 1, last)
                  /\ Len(page.prices) = Len(page.tokenIds)
                  /\ \A k \in 1 .. Len(page.tokenIds) :
                        page.prices[k] = valueData[page.tokenIds[k]].listPrice
        /\ \A limit \in 1 .. MaxTokens : PagesFrom(0, limit, Len(all)) = all

\* Token 0 is not listed and token 1 is: the first page of one entry skips
\* token 0 and holds token 1 with its price, and the second page is empty.
C37_Witness ==
    /\ tokenIdCounter = 2
    /\ owners[0] # ZERO /\ ~valueData[0].isListed
    /\ getListedNFTsPage(NftState, 0, 1) = [tokenIds |-> <<1>>, prices |-> <<399>>]
    /\ getListedNFTsPage(NftState, 1, 1) = [tokenIds |-> <<>>, prices |-> <<>>]

----------------------------------------------------------------------------
(* Properties of both ledgers *)

\* Whether an account holds the role that a gated function asks of its
\* caller, on the contract of that function.
HoldsRoleFor(op, account) ==
    CASE op = "mint"                 -> hasRole("MINTER_ROLE", account)
      [] op = "pause"                -> hasRole("PAUSER_ROLE", account)
      [] op = "unpause"              -> hasRole("PAUSER_ROLE", account)
      [] op = "distributeRewards"    -> hasRole("REWARDS_ROLE", account)
      [] op = "updateRewardRate"     -> hasRole("DEFAULT_ADMIN_ROLE", account)
      [] op = "emergencyWithdraw"    -> hasRole("DEFAULT_ADMIN_ROLE", account)
      [] op = "mintValueNFT"         -> hasRoleNFT("MINTER_ROLE", account)
      [] op = "updateValue"          -> hasRoleNFT("ORACLE_ROLE", account)
      [] op = "updateMarketplaceFee" -> hasRoleNFT("DEFAULT_ADMIN_ROLE", account)
      [] op = "updateFeeRecipient"   -> hasRoleNFT("DEFAULT_ADMIN_ROLE", account)
      [] OTHER -> TRUE

\* C15: a call of a role-gated function by an account without the role
\* fails and leaves the state of both contracts as it was.
C15_UnauthorizedNoEffect ==
    [][~HoldsRoleFor(ev'.op, ev'.who)
        => (ev'.err # "" /\ UNCHANGED <<tokenVars, nftVars>>)]_vars

\* alice was refused a token mint while assets exist and the pool is funded.
C15_Witness ==
    /\ ev.op = "mint" /\ ev.who = "alice"
    /\ ev.err = "AccessControl: missing role"
    /\ tokenIdCounter > 0
    /\ rewardPool > 0

====
